---- MODULE Spec2Model ----
(***************************************************************************)
(* A model of zombie/components.py: the component composition and copy     *)
(* protocol (Component.__new__), the widget constructors, event routing     *)
(* (Element.receive_event), rendering (Element.render) and the process-wide *)
(* identifier counter (Component._id_counter).                              *)
(*                                                                          *)
(* Python objects live in `heap`, a sequence of records; an object's        *)
(* address is its index.  A reference is an address, 0 is "no object".      *)
(* Python dicts are ordered: a dict is a sequence of <<key, value>> pairs.  *)
(* All attribute values are strings.                                        *)
(***************************************************************************)
EXTENDS Integers, Sequences, FiniteSets, TLC

VARIABLES
    heap,       \* the objects of the process
    idCounter,  \* Component._id_counter
    clsdict,    \* user class name -> its __dict__'s Component entries, in order
    last,       \* the last operation performed and what it returned
    pc,         \* per thread: its position inside ActiveElement.__init__
    reg,        \* per thread: the object under construction, the counter value read
    built       \* per thread: how many constructions it has finished

vars == <<heap, idCounter, clsdict, last, pc, reg, built>>

-----------------------------------------------------------------------------
(* Bounds of the model *)

MaxObjs == 7
MaxArgs == 2
MaxNodes == 4
MaxRoots == 2
MaxIndex == 1
MaxPath == 2
NThreads == 2
MaxBuilds == 2

-----------------------------------------------------------------------------
(* Python values *)

(* A local variable: v is evaluated once and F applied to its value. *)
Let(v, F(_)) == CHOOSE y \in {F(x) : x \in {v}} : TRUE

None == "<None>"
IntZero == "<int 0>"
NoHandler == <<"", 0>>

Truthy(v) == v # None /\ v # ""

events == <<"onchange", "onclick">>

Digit(n) ==
    CASE n = 0 -> "0" [] n = 1 -> "1" [] n = 2 -> "2" [] n = 3 -> "3"
      [] n = 4 -> "4" [] n = 5 -> "5" [] n = 6 -> "6" [] n = 7 -> "7"
      [] n = 8 -> "8" [] n = 9 -> "9"

RECURSIVE Str(_)
Str(n) == IF n < 10 THEN Digit(n) ELSE Str(n \div 10) \o Digit(n % 10)

-----------------------------------------------------------------------------
(* dict operations on sequences of <<key, value>> *)

DictKeys(d) == {d[i][1] : i \in DOMAIN d}

DictHas(d, k) == k \in DictKeys(d)

DictIndex(d, k) == CHOOSE i \in DOMAIN d : d[i][1] = k

DictGet(d, k, default) == IF DictHas(d, k) THEN d[DictIndex(d, k)][2] ELSE default

DictSet(d, k, v) ==
    IF DictHas(d, k) THEN [d EXCEPT ![DictIndex(d, k)] = <<k, v>>]
    ELSE Append(d, <<k, v>>)

(* A mutation of setdefault: the key is assigned whether present or not. *)
DictSetOverwrite(d, k, v) == DictSet(d, k, v)

DictSetDefault(d, k, v) == IF DictHas(d, k) THEN d ELSE Append(d, <<k, v>>)

DictDel(d, k) == SelectSeq(d, LAMBDA e : e[1] # k)

-----------------------------------------------------------------------------
(* The class hierarchy *)

LibraryClasses ==
    {"Component", "Element", "TextElement", "ActiveElement", "ChangeableElement",
     "TextField", "ClickableElement", "Button", "Form"}

LibraryBase(c) ==
    CASE c = "Element" -> "Component"
      [] c = "TextElement" -> "Component"
      [] c = "ActiveElement" -> "Element"
      [] c = "ChangeableElement" -> "ActiveElement"
      [] c = "TextField" -> "ChangeableElement"
      [] c = "ClickableElement" -> "ActiveElement"
      [] c = "Button" -> "ClickableElement"
      [] c = "Form" -> "ActiveElement"
      [] OTHER -> "object"

(* Component types declared by an application: the class statements whose
   bodies Component.__new__ reads through cls.__dict__.  `body` lists the
   Component-valued class attributes in definition order, each with the
   constructor call that builds the prototype; `methods` lists the event
   handlers the class body defines. *)
Params(tag, args, kwargs, name, value, label, required, text) ==
    [tag |-> tag, args |-> args, kwargs |-> kwargs, name |-> name,
     value |-> value, label |-> label, required |-> required, text |-> text]

TextFieldParams(name, value, required) ==
    Params("", <<>>, <<>>, name, value, None, required, "")

ButtonParams(label) == Params("", <<>>, <<>>, None, "", label, FALSE, "")

ElementParams(tag, args, kwargs) ==
    Params(tag, args, kwargs, None, "", None, FALSE, "")

FormParams(args) == Params("", args, <<>>, None, "", None, FALSE, "")

TextElementParams(text) == Params("", <<>>, <<>>, None, "", None, FALSE, text)

UserClassOrder == <<"Panel", "SubPanel", "OkButton", "LoginForm", "Link">>

UserClasses == {UserClassOrder[i] : i \in DOMAIN UserClassOrder}

UserClass(c) ==
    CASE c = "Panel" ->
           [base |-> "Element", methods |-> {},
            body |-> << [name |-> "field", cls |-> "TextField",
                         p |-> TextFieldParams(None, "", FALSE)] >>]
      [] c = "SubPanel" ->
           [base |-> "Panel", methods |-> {}, body |-> <<>>]
      [] c = "OkButton" ->
           [base |-> "Button", methods |-> {},
            body |-> << [name |-> "icon", cls |-> "Element",
                         p |-> ElementParams("i", <<>>, <<>>)] >>]
      [] c = "LoginForm" ->
           [base |-> "Form", methods |-> {},
            body |-> << [name |-> "user", cls |-> "TextField",
                         p |-> TextFieldParams("login", "", FALSE)] >>]
      [] c = "Link" ->
           [base |-> "Element", methods |-> {"onchange", "onclick"}, body |-> <<>>]

Base(c) == IF c \in UserClasses THEN UserClass(c).base ELSE LibraryBase(c)

RECURSIVE IsSubclass(_, _)
IsSubclass(c, k) ==
    IF c = k THEN TRUE
    ELSE IF c = "object" THEN FALSE
    ELSE IsSubclass(Base(c), k)

IsInstance(h, a, k) == IsSubclass(h[a].cls, k)

(* The class whose __init__ a call cls(...) runs: no user class defines one. *)
RECURSIVE InitClass(_)
InitClass(c) == IF c \in UserClasses THEN InitClass(Base(c)) ELSE c

(* Whether type c or an ancestor defines method e in its class body. *)
RECURSIVE ClassDefines(_, _)
ClassDefines(c, e) ==
    IF c = "object" THEN FALSE
    ELSE IF c \in UserClasses /\ e \in UserClass(c).methods THEN TRUE
    ELSE IF c = "ChangeableElement" /\ e = "onchange" THEN TRUE
    ELSE IF c = "ClickableElement" /\ e = "onclick" THEN TRUE
    ELSE IF c = "Form" /\ e = "onsubmit" THEN TRUE
    ELSE IF c = "Element" /\ e \in {"receive_event", "render"} THEN TRUE
    ELSE IF c = "TextElement" /\ e = "render" THEN TRUE
    ELSE ClassDefines(Base(c), e)

(* The class that getattr(type, e) finds the method in. *)
RECURSIVE DefiningClass(_, _)
DefiningClass(c, e) ==
    IF c \in UserClasses /\ e \in UserClass(c).methods THEN c
    ELSE IF c \in LibraryClasses /\ ClassDefines(c, e) /\ ~ClassDefines(Base(c), e) THEN c
    ELSE DefiningClass(Base(c), e)

-----------------------------------------------------------------------------
(* Objects *)

Blank(cls) ==
    [cls |-> cls, parent |-> 0, children |-> <<>>, hasattributes |-> FALSE,
     attributes |-> <<>>, tag |-> "", text |-> "", value |-> None,
     required |-> FALSE, onclick |-> NoHandler, dict |-> <<>>]

(* hasattr(obj, e): the instance's own attributes, then its type's. *)
HasAttr(h, a, e) ==
    \/ e = "attributes" /\ h[a].hasattributes
    \/ e = "onclick" /\ h[a].onclick # NoHandler
    \/ DictHas(h[a].dict, e)
    \/ ClassDefines(h[a].cls, e)

(* getattr(obj, e) for a handler name: a bound method <<function, self>>. *)
GetHandler(h, a, e) ==
    IF e = "onclick" /\ h[a].onclick # NoHandler THEN h[a].onclick
    ELSE <<DefiningClass(h[a].cls, e) \o "." \o e, a>>

-----------------------------------------------------------------------------
(* copy.deepcopy *)

Refs(o) ==
    ({o.children[i] : i \in DOMAIN o.children}
        \cup {o.dict[i][2] : i \in DOMAIN o.dict}
        \cup {o.parent, o.onclick[2]}) \ {0}

RECURSIVE Reach(_, _)
Reach(h, S) ==
    Let(S \cup UNION {Refs(h[x]) : x \in S},
        LAMBDA T : IF T = S THEN S ELSE Reach(h, T))

(* The object o with every reference r replaced by mp[r]. *)
Remap(o, mp) ==
    [o EXCEPT !.children = [i \in DOMAIN o.children |-> mp[o.children[i]]],
              !.dict = [i \in DOMAIN o.dict |-> <<o.dict[i][1], mp[o.dict[i][2]]>>],
              !.parent = mp[o.parent],
              !.onclick = <<o.onclick[1], mp[o.onclick[2]]>>]

(* A mutation of the copy step: the declared object itself is handed out. *)
NoCopy(h, a) == [heap |-> h, addr |-> a]

(* copy.deepcopy(h[a]): every object reachable from a is duplicated once (the
   memo), references among the duplicates point to duplicates.  The objects
   that __reduce_ex__'s call of cls.__new__ creates and drops are not kept. *)
DeepCopy(h, a) ==
    Let(Reach(h, {a}), LAMBDA R :
        LET Rank(x) == Cardinality({y \in R : y < x})
            Nth(i) == CHOOSE x \in R : Rank(x) = i - 1
        IN Let([x \in R \cup {0} |-> IF x = 0 THEN 0 ELSE Len(h) + 1 + Rank(x)],
               LAMBDA mp :
                   [heap |-> h \o [i \in 1..Cardinality(R) |-> Remap(h[Nth(i)], mp)],
                    addr |-> mp[a]]))

-----------------------------------------------------------------------------
(* Constructors.  A machine m is [heap, ctr]: the objects and
   Component._id_counter.  cd is the class dictionaries (clsdict). *)

OwnEntries(cd, cls) == IF cls \in DOMAIN cd THEN cd[cls] ELSE <<>>

(* One iteration of the loop of Component.__new__ for (child_name, cls_child). *)
NewChild(m, a, child_name, cls_child) ==
    Let(DeepCopy(m.heap, cls_child), LAMBDA dc :
        LET c == dc.addr
            h1 == [dc.heap EXCEPT ![c].parent = a]
            h2 == IF HasAttr(dc.heap, c, "attributes")
                  THEN [h1 EXCEPT ![c].attributes = DictSetDefault(@, "name", child_name)]
                  ELSE h1
        IN [m EXCEPT !.heap = [h2 EXCEPT ![a].children = Append(@, c),
                                         ![a].dict = DictSet(@, child_name, c)]])

RECURSIVE NewChildren(_, _, _, _)
NewChildren(m, a, entries, k) ==
    IF k > Len(entries) THEN m
    ELSE Let(NewChild(m, a, entries[k][1], entries[k][2]),
             LAMBDA m1 : NewChildren(m1, a, entries, k + 1))

(* Component.__new__(cls): the new object is at address Len(m.heap) + 1. *)
New(m, cd, cls) ==
    Let([m EXCEPT !.heap = Append(@, Blank(cls))],
        LAMBDA m0 : NewChildren(m0, Len(m.heap) + 1, OwnEntries(cd, cls), 1))

ElementInit(m, a, tag, args, kwargs) ==
    [m EXCEPT !.heap[a].tag = tag,
              !.heap[a].children = @ \o args,
              !.heap[a].attributes = kwargs,
              !.heap[a].hasattributes = TRUE]

TextElementInit(m, a, text) == [m EXCEPT !.heap[a].text = text]

ActiveElementInit(m, a, tag, args, kwargs) ==
    Let(ElementInit(m, a, tag, args, kwargs), LAMBDA m1 :
    Let([m1 EXCEPT !.ctr = @ + 1], LAMBDA m2 :
        [m2 EXCEPT !.heap[a].attributes = DictSet(@, "id", Str(m2.ctr))]))

RequiredToggle == "this.classList.toggle(\"required\", !this.value)"

ChangeableElementInit(m, a, tag, args, kwargs) ==
    LET required == DictHas(kwargs, "required") /\ DictGet(kwargs, "required", "") = "True"
    IN Let([m EXCEPT !.heap[a].required = required], LAMBDA m1 :
       Let(ActiveElementInit(m1, a, tag, args, DictDel(kwargs, "required")), LAMBDA m2 :
           IF required
           THEN [m2 EXCEPT !.heap[a].attributes =
                    DictSet(DictSet(@, "oninput", RequiredToggle), "onfocus", RequiredToggle)]
           ELSE m2))

TextFieldInit(m, a, name, value, args, kwargs) ==
    Let(ChangeableElementInit(m, a, "input", args, <<<<"type", "text">>>> \o kwargs),
        LAMBDA m1 :
    Let(IF Truthy(name)
        THEN [m1 EXCEPT !.heap[a].attributes = DictSet(@, "name", name)]
        ELSE m1,
        LAMBDA m2 :
            IF Truthy(value)
            THEN [m2 EXCEPT !.heap[a].value = value,
                            !.heap[a].attributes = DictSet(@, "value", value)]
            ELSE m2))

ButtonInit(m, cd, a, label, args, kwargs) ==
    Let(ActiveElementInit(m, a, "button", args, kwargs), LAMBDA m1 :
        IF label # None
        THEN Let(New(m1, cd, "TextElement"), LAMBDA m2 :
                 [TextElementInit(m2, Len(m1.heap) + 1, label)
                     EXCEPT !.heap[a].children = << Len(m1.heap) + 1 >>])
        ELSE m1)

(* A mutation of the scan: the first Button rather than the last. *)
FirstButton(h, children) ==
    LET B == {i \in DOMAIN children : IsInstance(h, children[i], "Button")}
    IN IF B = {} THEN 0 ELSE CHOOSE i \in B : \A j \in B : i <= j

(* [c for c in self.children[::-1] if isinstance(c, Button)][0]: the index in
   children of the Button found, 0 for IndexError. *)
LastButton(h, children) ==
    LET B == {i \in DOMAIN children : IsInstance(h, children[i], "Button")}
    IN IF B = {} THEN 0 ELSE CHOOSE i \in B : \A j \in B : i >= j

FormInit(m, cd, a, args, kwargs) ==
    Let(ActiveElementInit(m, a, "form", args, kwargs), LAMBDA m1 :
    Let(LastButton(m1.heap, m1.heap[a].children), LAMBDA i :
        IF i = 0
        THEN Let(New(m1, cd, "Button"), LAMBDA m2 :
             Let(ButtonInit(m2, cd, Len(m1.heap) + 1, "Submit", <<>>, <<>>), LAMBDA m3 :
                 [m3 EXCEPT !.heap[a].children = Append(@, Len(m1.heap) + 1),
                            !.heap[Len(m1.heap) + 1].onclick =
                                GetHandler(m3.heap, a, "onsubmit")]))
        ELSE [m1 EXCEPT !.heap[m1.heap[a].children[i]].onclick =
                            GetHandler(m1.heap, a, "onsubmit")]))

(* cls(...): __new__, then the __init__ the type inherits. *)
Construct(m, cd, cls, p) ==
    Let(New(m, cd, cls), LAMBDA m1 :
        LET a == Len(m.heap) + 1
            k == InitClass(cls)
        IN CASE k = "Element" -> ElementInit(m1, a, p.tag, p.args, p.kwargs)
             [] k = "TextElement" -> TextElementInit(m1, a, p.text)
             [] k = "TextField" ->
                  TextFieldInit(m1, a, p.name, p.value, p.args,
                      IF p.required THEN <<<<"required", "True">>>> \o p.kwargs
                      ELSE p.kwargs)
             [] k = "Button" -> ButtonInit(m1, cd, a, p.label, p.args, p.kwargs)
             [] k = "Form" -> FormInit(m1, cd, a, p.args, p.kwargs))

-----------------------------------------------------------------------------
(* Importing the application: each class statement runs its body, which
   constructs the declared children, and binds them in the class's __dict__. *)

RECURSIVE ClassBody(_, _, _, _)
ClassBody(st, c, body, k) ==
    IF k > Len(body) THEN st
    ELSE Let(Construct(st.m, st.cd, body[k].cls, body[k].p), LAMBDA m1 :
         Let([x \in DOMAIN st.cd \cup {c} |->
                 IF x = c
                 THEN Append(OwnEntries(st.cd, c), <<body[k].name, Len(st.m.heap) + 1>>)
                 ELSE st.cd[x]],
             LAMBDA cd1 : ClassBody([m |-> m1, cd |-> cd1], c, body, k + 1)))

RECURSIVE ImportClasses(_, _)
ImportClasses(st, k) ==
    IF k > Len(UserClassOrder) THEN st
    ELSE LET c == UserClassOrder[k]
         IN Let([st EXCEPT !.cd = [x \in DOMAIN st.cd \cup {c} |->
                                      IF x = c THEN <<>> ELSE st.cd[x]]], LAMBDA st0 :
            Let(ClassBody(st0, c, UserClass(c).body, 1), LAMBDA st1 :
                ImportClasses(st1, k + 1)))

Imported == ImportClasses([m |-> [heap |-> <<>>, ctr |-> 0], cd |-> <<>>], 1)

-----------------------------------------------------------------------------
(* Attribute lookup by declared name *)

(* type.__getattribute__: the class's own __dict__, then its bases'. *)
RECURSIVE ClassLookup(_, _, _)
ClassLookup(cd, c, name) ==
    IF c = "object" THEN 0
    ELSE IF DictHas(OwnEntries(cd, c), name) THEN DictGet(OwnEntries(cd, c), name, 0)
    ELSE ClassLookup(cd, Base(c), name)

(* getattr(obj, name): the instance's __dict__, then the type. *)
Lookup(h, cd, a, name) ==
    IF DictHas(h[a].dict, name) THEN DictGet(h[a].dict, name, 0)
    ELSE ClassLookup(cd, h[a].cls, name)

(* The names declared as class-level children on c or on an ancestor. *)
RECURSIVE AllDeclared(_, _)
AllDeclared(cd, c) ==
    IF c = "object" THEN {}
    ELSE DictKeys(OwnEntries(cd, c)) \cup AllDeclared(cd, Base(c))

Prototypes(cd) == UNION {{cd[c][i][2] : i \in DOMAIN cd[c]} : c \in DOMAIN cd}

(* Objects that may be handed to a constructor as positional children: built
   by the application, in no tree yet. *)
Roots(h, cd) ==
    Let(Reach(h, Prototypes(cd)), LAMBDA P :
        {a \in DOMAIN h :
            /\ a \notin P
            /\ h[a].parent = 0
            /\ \A b \in DOMAIN h : \A i \in DOMAIN h[b].children : h[b].children[i] # a})

(* The positional children of a constructor call in a nested constructor
   expression such as Form(Element('div', Button()), Button()): the operands
   are evaluated first, left to right, so they are the most recently built
   objects not yet in a tree, in the order they were built. *)
ArgLists(h, cd) ==
    Let(Roots(h, cd), LAMBDA R :
        LET Rank(x) == Cardinality({y \in R : y < x})
            stack == [i \in 1..Cardinality(R) |-> CHOOSE x \in R : Rank(x) = i - 1]
        IN {SubSeq(stack, Len(stack) - n + 1, Len(stack)) :
               n \in 0..(IF MaxArgs < Len(stack) THEN MaxArgs ELSE Len(stack))})

ParamChoices(h, cd, cls) ==
    LET k == InitClass(cls)
    IN CASE k = "Element" ->
              {ElementParams("div", args, <<<<"class", "a<b">>>>) :
                  args \in ArgLists(h, cd)}
         [] k = "Button" -> {ButtonParams(None)}
         [] k = "Form" -> {FormParams(args) : args \in ArgLists(h, cd)}

-----------------------------------------------------------------------------
(* The state machine *)

Threads == 1..NThreads

Init ==
    /\ \E st \in {Imported} :
          /\ heap = st.m.heap
          /\ idCounter = st.m.ctr
          /\ clsdict = st.cd
    /\ last = [op |-> "import"]
    /\ pc = [t \in Threads |-> "idle"]
    /\ reg = [t \in Threads |-> [obj |-> 0, val |-> 0]]
    /\ built = [t \in Threads |-> 0]

UserParamChoices(cls) ==
    LET k == InitClass(cls)
    IN CASE k = "Element" -> {ElementParams("div", <<>>, <<>>)}
         [] k = "Button" -> {ButtonParams(None), ButtonParams("OK")}
         [] k = "Form" -> {FormParams(<<>>)}

(* cls(...) for a component type of the application. *)
Instantiate ==
    \E cls \in {"Panel", "SubPanel", "OkButton", "LoginForm"} :
    \E p \in UserParamChoices(cls) :
        \E m \in {Construct([heap |-> heap, ctr |-> idCounter], clsdict, cls, p)} :
           /\ Len(m.heap) <= MaxObjs
           /\ heap' = m.heap
           /\ idCounter' = m.ctr
           /\ last' = [op |-> "construct", addr |-> Len(heap) + 1, cls |-> cls,
                       args |-> p.args]
           /\ UNCHANGED <<clsdict, pc, reg, built>>

(* A.c for a declared name c of A's type: getattr on the instance. *)
Targets(h, cd) ==
    {<<a, n>> \in (DOMAIN h) \X {"field", "icon", "user"} :
        n \in AllDeclared(cd, h[a].cls)}

(* ChangeableElement.onchange(value) on A.c *)
OnChange ==
    \E tn \in Targets(heap, clsdict) : \E v \in {"typed"} :
        \E t \in {Lookup(heap, clsdict, tn[1], tn[2])} :
           /\ HasAttr(heap, t, "onchange")
           /\ heap[t].value # v
           /\ heap' = [heap EXCEPT ![t].value = v]
           /\ last' = [op |-> "mutate", addr |-> t, via |-> tn]
           /\ UNCHANGED <<idCounter, clsdict, pc, reg, built>>

(* A.c.attributes[k] = v *)
SetAttribute ==
    \E tn \in Targets(heap, clsdict) : \E k \in {"name", "class"} :
        \E t \in {Lookup(heap, clsdict, tn[1], tn[2])} :
           /\ HasAttr(heap, t, "attributes")
           /\ DictGet(heap[t].attributes, k, None) # "set"
           /\ heap' = [heap EXCEPT ![t].attributes = DictSet(@, k, "set")]
           /\ last' = [op |-> "mutate", addr |-> t, via |-> tn]
           /\ UNCHANGED <<idCounter, clsdict, pc, reg, built>>

(* A.c.children.append(TextElement("hi")) *)
AddChild ==
    \E tn \in Targets(heap, clsdict) :
        \E t \in {Lookup(heap, clsdict, tn[1], tn[2])} :
        \E m \in {Construct([heap |-> heap, ctr |-> idCounter], clsdict,
                            "TextElement", TextElementParams("hi"))} :
           /\ Len(m.heap) <= MaxObjs
           /\ heap' = [m.heap EXCEPT ![t].children = Append(@, Len(heap) + 1)]
           /\ last' = [op |-> "mutate", addr |-> t, via |-> tn]
           /\ UNCHANGED <<idCounter, clsdict, pc, reg, built>>

-----------------------------------------------------------------------------
(* Event routing *)

(* The target of the event handed to children[event.target[0]]: the event
   object itself is passed on, so the child sees the same target. *)
Forwarded(target) == target

(* A mutation of the routing: an index past the end is skipped. *)
RECURSIVE ReceiveEventSkipping(_, _, _)
ReceiveEventSkipping(h, a, target) ==
    IF target = <<>> \/ target[1] >= Len(h[a].children)
    THEN [kind |-> "ok", yields |-> <<>>, calls |-> << <<a, target>> >>]
    ELSE IF ~HasAttr(h, h[a].children[target[1] + 1], "receive_event")
    THEN [kind |-> "AttributeError", yields |-> <<>>, calls |-> << <<a, target>> >>]
    ELSE Let(ReceiveEventSkipping(h, h[a].children[target[1] + 1], Forwarded(target)),
             LAMBDA r :
                 [kind |-> r.kind,
                  yields |-> [k \in DOMAIN r.yields |->
                                 << <<target[1]>> \o r.yields[k][1], r.yields[k][2] >>],
                  calls |-> << <<a, target>> >> \o r.calls])

(* Element.receive_event(event) consumed to its end, event.target = target
   (indices count from 0).  kind is how the iteration ends: "ok" when the
   generator is exhausted, else the exception raised; yields are the pairs
   delivered before that; calls lists each component whose receive_event
   ran, with the event.target it saw. *)
RECURSIVE ReceiveEvent(_, _, _)
ReceiveEvent(h, a, target) ==
    IF target = <<>>
    THEN [kind |-> "ok", yields |-> <<>>, calls |-> << <<a, target>> >>]
    ELSE IF target[1] >= Len(h[a].children)
    THEN [kind |-> "IndexError", yields |-> <<>>, calls |-> << <<a, target>> >>]
    ELSE IF ~HasAttr(h, h[a].children[target[1] + 1], "receive_event")
    THEN [kind |-> "AttributeError", yields |-> <<>>, calls |-> << <<a, target>> >>]
    ELSE Let(ReceiveEvent(h, h[a].children[target[1] + 1], Forwarded(target)),
             LAMBDA r :
                 [kind |-> r.kind,
                  yields |-> [k \in DOMAIN r.yields |->
                                 << <<target[1]>> \o r.yields[k][1], r.yields[k][2] >>],
                  calls |-> << <<a, target>> >> \o r.calls])

-----------------------------------------------------------------------------
(* Rendering *)

DispatchStub == "return Z(this.id,this.value)"

(* html.escape(v, quote) on the attribute values and texts of this model. *)
HtmlEscape(v, quote) ==
    CASE v = "a<b" -> "a&lt;b"
      [] v = RequiredToggle /\ quote ->
            "this.classList.toggle(&quot;required&quot;, !this.value)"
      [] OTHER -> v

(* A mutation of the registration: the id is not looked up. *)
OwnRegistrationsNoId(h, a) ==
    LET E == SelectSeq(events, LAMBDA e : HasAttr(h, a, e))
    IN [k \in DOMAIN E |->
           [id |-> IntZero, handler |-> GetHandler(h, a, E[k]), node |-> a,
            event |-> E[k]]]

(* The view.register calls of one node, in order; node and event record
   which node made the call and for which event name. *)
OwnRegistrations(h, a) ==
    LET E == SelectSeq(events, LAMBDA e : HasAttr(h, a, e))
    IN [k \in DOMAIN E |->
           [id |-> DictGet(h[a].attributes, "id", IntZero),
            handler |-> GetHandler(h, a, E[k]), node |-> a, event |-> E[k]]]

(* The clauses of one node's opening tag. *)
OpeningTag(h, a) ==
    LET E == SelectSeq(events, LAMBDA e : HasAttr(h, a, e))
        A == h[a].attributes
    IN << [t |-> "open", node |-> a, k |-> h[a].tag, v |-> ""] >>
       \o [j \in DOMAIN A |->
              [t |-> "attribute", node |-> a, k |-> A[j][1],
               v |-> HtmlEscape(A[j][2], TRUE)]]
       \o [j \in DOMAIN E |->
              [t |-> "dispatch", node |-> a, k |-> E[j], v |-> DispatchStub]]
       \o << [t |-> ">", node |-> a, k |-> "", v |-> ""] >>

RECURSIVE Render(_, _)
RECURSIVE RenderChildren(_, _, _)
(* c.render(view) for the children from index k on, in order. *)
RenderChildren(h, children, k) ==
    IF k > Len(children) THEN [regs |-> <<>>, out |-> <<>>]
    ELSE Let(Render(h, children[k]), LAMBDA r :
         Let(RenderChildren(h, children, k + 1), LAMBDA rest :
             [regs |-> r.regs \o rest.regs, out |-> r.out \o rest.out]))

(* render(view): regs are the calls view.register received, out the pieces
   of the markup returned. *)
Render(h, a) ==
    IF IsInstance(h, a, "TextElement")
    THEN [regs |-> <<>>,
          out |-> << [t |-> "text", node |-> a, k |-> "",
                      v |-> HtmlEscape(h[a].text, FALSE)] >>]
    ELSE Let(OwnRegistrations(h, a), LAMBDA own :
         Let(RenderChildren(h, h[a].children, 1), LAMBDA kids :
             [regs |-> own \o kids.regs,
              out |-> OpeningTag(h, a) \o kids.out
                      \o << [t |-> "close", node |-> a, k |-> h[a].tag, v |-> ""] >>]))

-----------------------------------------------------------------------------
(* A process that builds trees from the library's widgets, routes events
   to them and renders them. *)

TreeClasses == {"Element", "Button", "Form", "Link"}

InitTree ==
    /\ heap = <<>>
    /\ idCounter = 0
    /\ clsdict = <<>>
    /\ last = [op |-> "import"]
    /\ pc = [t \in Threads |-> "idle"]
    /\ reg = [t \in Threads |-> [obj |-> 0, val |-> 0]]
    /\ built = [t \in Threads |-> 0]

Build ==
    \E cls \in TreeClasses : \E p \in ParamChoices(heap, clsdict, cls) :
        \E m \in {Construct([heap |-> heap, ctr |-> idCounter], clsdict, cls, p)} :
           /\ Len(m.heap) <= MaxNodes
           /\ Cardinality(Roots(m.heap, clsdict)) <= MaxRoots
           /\ heap' = m.heap
           /\ idCounter' = m.ctr
           /\ last' = [op |-> "construct", addr |-> Len(heap) + 1, cls |-> cls,
                       args |-> p.args]
           /\ UNCHANGED <<clsdict, pc, reg, built>>

Paths == UNION {[1..n -> 0..MaxIndex] : n \in 0..MaxPath}

(* An event is delivered to the tree whose root was just constructed.
   Routing changes no object, so routing to an older tree, or a second
   time, would return what it returns here. *)
Route ==
    \E target \in Paths : \E root \in IF last.op = "construct" THEN {last.addr} ELSE {} :
        /\ root \in Roots(heap, clsdict)
        /\ HasAttr(heap, root, "receive_event")
        /\ \E r \in {ReceiveEvent(heap, root, target)} :
              last' = [op |-> "route", root |-> root, target |-> target, result |-> r]
        /\ UNCHANGED <<heap, idCounter, clsdict, pc, reg, built>>

(* The tree whose root was just constructed is rendered. *)
RenderTree ==
    \E root \in IF last.op = "construct" THEN {last.addr} ELSE {} :
        /\ root \in Roots(heap, clsdict)
        /\ HasAttr(heap, root, "render")
        /\ \E r \in {Render(heap, root)} :
              last' = [op |-> "render", root |-> root, result |-> r]
        /\ UNCHANGED <<heap, idCounter, clsdict, pc, reg, built>>

NextTree == Build \/ Route \/ RenderTree

SpecTree == InitTree /\ [][NextTree]_vars

-----------------------------------------------------------------------------
(* Threads that each construct Buttons, a step of ActiveElement.__init__
   at a time: super().__init__, then `Component._id_counter += 1` as a read
   and a write, then the read that stamps the id. *)

Begin(t) ==
    /\ pc[t] = "idle"
    /\ built[t] < MaxBuilds
    /\ \E m0 \in {New([heap |-> heap, ctr |-> idCounter], clsdict, "Button")} :
       \E m \in {ElementInit(m0, Len(heap) + 1, "button", <<>>, <<>>)} :
          /\ heap' = m.heap
          /\ reg' = [reg EXCEPT ![t] = [obj |-> Len(heap) + 1, val |-> 0]]
    /\ pc' = [pc EXCEPT ![t] = "load"]
    /\ last' = [op |-> "thread"]
    /\ UNCHANGED <<idCounter, clsdict, built>>

Load(t) ==
    /\ pc[t] = "load"
    /\ reg' = [reg EXCEPT ![t].val = idCounter]
    /\ pc' = [pc EXCEPT ![t] = "store"]
    /\ UNCHANGED <<heap, idCounter, clsdict, last, built>>

Store(t) ==
    /\ pc[t] = "store"
    /\ idCounter' = reg[t].val + 1
    /\ pc' = [pc EXCEPT ![t] = "stamp"]
    /\ UNCHANGED <<heap, clsdict, last, reg, built>>

Stamp(t) ==
    /\ pc[t] = "stamp"
    /\ heap' = [heap EXCEPT ![reg[t].obj].attributes = DictSet(@, "id", Str(idCounter))]
    /\ built' = [built EXCEPT ![t] = @ + 1]
    /\ pc' = [pc EXCEPT ![t] = "idle"]
    /\ UNCHANGED <<idCounter, clsdict, last, reg>>

NextConc == \E t \in Threads : Begin(t) \/ Load(t) \/ Store(t) \/ Stamp(t)

SpecConc == InitTree /\ [][NextConc]_vars

Next == Instantiate \/ OnChange \/ SetAttribute \/ AddChild

Spec == Init /\ [][Next]_vars

-----------------------------------------------------------------------------
(* Vocabulary of the properties *)

ActiveElements(h) == {a \in DOMAIN h : IsInstance(h, a, "ActiveElement")}

IdOf(h, a) == DictGet(h[a].attributes, "id", IntZero)

Instances(h) == {a \in DOMAIN h : h[a].cls \in UserClasses}

DeclaredNames == {"field", "icon", "user"}

(* A's own copy of the declared child n, 0 when A holds none. *)
CopyOf(h, a, n) == DictGet(h[a].dict, n, 0)

Observable(h, c) ==
    [value |-> h[c].value, attributes |-> h[c].attributes, children |-> h[c].children]

(* The component an index path leads to from a, 0 when some index is out of
   range at its level. *)
RECURSIVE Follow(_, _, _)
Follow(h, a, p) ==
    IF p = <<>> THEN a
    ELSE IF p[1] >= Len(h[a].children) THEN 0
    ELSE Follow(h, h[a].children[p[1] + 1], Tail(p))

RECURSIVE Subtree(_, _)
Subtree(h, S) ==
    Let(S \cup UNION {{h[x].children[i] : i \in DOMAIN h[x].children} : x \in S},
        LAMBDA T : IF T = S THEN S ELSE Subtree(h, T))

Routed == last.op = "route"

Rendered == last.op = "render"

AllIdle == \A t \in Threads : pc[t] = "idle"

-----------------------------------------------------------------------------
(* C1. Round-trip routing: an event whose target is a valid, non-empty index
   path p from the root to an event-capable component yields exactly one
   (path, message) pair, and its path is p. *)
C1_RoundTrip ==
    (Routed /\ last.target # <<>>) =>
        LET c == Follow(heap, last.root, last.target)
        IN (c # 0 /\ IsInstance(heap, c, "ActiveElement")) =>
              /\ last.result.kind = "ok"
              /\ Len(last.result.yields) = 1
              /\ last.result.yields[1][1] = last.target

(* C2. Id uniqueness: no two distinct ActiveElement objects of the process
   carry the same id attribute. *)
C2_IdUniqueness ==
    \A a, b \in ActiveElements(heap) : a # b => IdOf(heap, a) # IdOf(heap, b)

(* C3. Copy independence: a mutation of instance A's copy of a declared child
   (onchange, an attribute assignment, an added child) leaves the copy held by
   any other instance B of the same type, and the class-level declared object,
   with the same value, attributes and children. *)
C3_CopyIndependence ==
    [][ \A A, B \in DOMAIN heap : \A n \in DeclaredNames :
          ( /\ last'.op = "mutate" /\ heap' # heap
            /\ A # B /\ heap[A].cls = heap[B].cls
            /\ CopyOf(heap, A, n) # 0 /\ CopyOf(heap, B, n) # 0
            /\ last'.addr = CopyOf(heap, A, n) )
          => /\ Observable(heap', CopyOf(heap, B, n)) = Observable(heap, CopyOf(heap, B, n))
             /\ LET proto == ClassLookup(clsdict, heap[A].cls, n)
                IN Observable(heap', proto) = Observable(heap, proto) ]_vars

C3_Witness ==
    /\ last.op = "mutate"
    /\ \E A, B \in DOMAIN heap : \E n \in DeclaredNames :
          /\ A # B /\ heap[A].cls = heap[B].cls
          /\ CopyOf(heap, A, n) # 0 /\ CopyOf(heap, B, n) # 0
          /\ last.addr = CopyOf(heap, A, n)
          /\ heap[CopyOf(heap, A, n)].value = "typed"
          /\ heap[CopyOf(heap, B, n)].value = None

(* C4. Name view and position view agree: for every instance of a component
   type and every child declared on the type or on an ancestor, the object
   found by the declared name on the instance is exactly one element of the
   instance's children, is not the class-level declared object, and has the
   instance as its parent. *)
C4_NameViewAgrees ==
    \A a \in Instances(heap) : \A n \in AllDeclared(clsdict, heap[a].cls) :
        LET c == Lookup(heap, clsdict, a, n)
        IN /\ Cardinality({i \in DOMAIN heap[a].children : heap[a].children[i] = c}) = 1
           /\ c \notin Prototypes(clsdict)
           /\ heap[c].parent = a

(* C5. Routing error is surfaced: consuming receive_event for a non-empty
   index path that has an out-of-range index at some level ends in an
   exception; it does not end normally and it yields no pair. *)
C5_RoutingErrorSurfaced ==
    (Routed /\ last.target # <<>> /\ Follow(heap, last.root, last.target) = 0)
        => /\ last.result.kind \in {"IndexError", "AttributeError"}
           /\ last.result.yields = <<>>

C5_Witness ==
    /\ Routed /\ Len(last.target) = 2
    /\ Follow(heap, last.root, last.target) = 0
    /\ Follow(heap, last.root, <<last.target[1]>>) # 0
    /\ last.result.kind = "IndexError"

(* C6. Form submit wiring: constructing a Form from children that include a
   Button leaves the children sequence as given, sets the click handler of
   the Button at the highest index to the Form's onsubmit and leaves every
   other child's click handler as it was; constructing it from children with
   no Button appends one Button labelled "Submit" whose click handler is the
   Form's onsubmit.  Either way the handler found on that button is the
   Form's onsubmit. *)
C6_FormSubmitWiring ==
    [][ ( /\ last'.op = "construct" /\ Len(heap') > Len(heap)
          /\ InitClass(last'.cls) = "Form" )
        => LET a == last'.addr
               given == [i \in DOMAIN heap'[a].dict |-> heap'[a].dict[i][2]] \o last'.args
               B == {i \in DOMAIN given : IsInstance(heap', given[i], "Button")}
               onsubmit == <<"Form.onsubmit", a>>
           IN IF B # {}
              THEN /\ heap'[a].children = given
                   /\ \A i \in B :
                         IF \A j \in B : j <= i
                         THEN /\ heap'[given[i]].onclick = onsubmit
                              /\ GetHandler(heap', given[i], "onclick")
                                    = GetHandler(heap', a, "onsubmit")
                         ELSE heap'[given[i]].onclick = heap[given[i]].onclick
                   /\ \A i \in DOMAIN last'.args :
                         i + Len(heap'[a].dict) \notin B
                             => heap'[last'.args[i]] = heap[last'.args[i]]
              ELSE /\ Len(heap'[a].children) = Len(given) + 1
                   /\ SubSeq(heap'[a].children, 1, Len(given)) = given
                   /\ LET b == heap'[a].children[Len(given) + 1]
                      IN /\ b > Len(heap)
                         /\ heap'[b].cls = "Button"
                         /\ Len(heap'[b].children) = 1
                         /\ heap'[heap'[b].children[1]].cls = "TextElement"
                         /\ heap'[heap'[b].children[1]].text = "Submit"
                         /\ heap'[b].onclick = onsubmit
                         /\ GetHandler(heap', b, "onclick")
                               = GetHandler(heap', a, "onsubmit")
                   /\ \A i \in DOMAIN last'.args :
                         heap'[last'.args[i]] = heap[last'.args[i]] ]_vars

C6_Witness ==
    /\ last.op = "construct" /\ last.cls = "Form" /\ Len(last.args) = 2
    /\ heap[last.addr].children = last.args
    /\ heap[last.args[1]].cls = "Button" /\ heap[last.args[2]].cls = "Button"
    /\ heap[last.args[1]].onclick = NoHandler
    /\ heap[last.args[2]].onclick = <<"Form.onsubmit", last.addr>>

(* C7. Id counter under concurrent construction: when all constructions have
   finished, the constructed elements carry pairwise distinct ids and the
   counter has grown by the number of constructions. *)
C7_ConcurrentIds ==
    AllIdle =>
        /\ \A a, b \in DOMAIN heap : a # b => IdOf(heap, a) # IdOf(heap, b)
        /\ idCounter = Len(heap)

(* C8. Name propagation: when a component type is instantiated, each copied
   declared child that has an attributes mapping gets the declared name as its
   name attribute if the declared object has no name attribute and keeps the
   declared object's name attribute otherwise; the attributes of the
   class-level declared objects are not modified. *)
C8_NamePropagation ==
    [][ (last'.op = "construct" /\ Len(heap') > Len(heap))
        => LET a == last'.addr
               entries == OwnEntries(clsdict, last'.cls)
           IN /\ \A i \in DOMAIN entries :
                    LET c == CopyOf(heap', a, entries[i][1])
                        declared == heap[entries[i][2]].attributes
                    IN /\ c # 0 /\ c > Len(heap)
                       /\ heap'[c].hasattributes =>
                             DictGet(heap'[c].attributes, "name", None) =
                                 IF DictHas(declared, "name")
                                 THEN DictGet(declared, "name", None)
                                 ELSE entries[i][1]
              /\ \A q \in Prototypes(clsdict) :
                    heap'[q].attributes = heap[q].attributes ]_vars

C8_Witness ==
    /\ last.op = "construct" /\ last.cls = "LoginForm"
    /\ CopyOf(heap, last.addr, "user") # 0
    /\ DictGet(heap[CopyOf(heap, last.addr, "user")].attributes, "name", None) = "login"

(* C9. Render registration matches emitted markup: one render of a tree makes
   exactly one register call per Element node and event name the node
   defines; a node's calls come before those of its descendants, onchange
   before onclick; each call carries the node's id attribute (0 when it has
   none) and the node's handler; and the node's opening tag holds its
   declared attributes first, then one dispatch attribute per registration,
   in the same order. *)
C9_RenderRegistration ==
    Rendered =>
        LET regs == last.result.regs
            out == last.result.out
            nodes == {n \in Subtree(heap, {last.root}) : IsInstance(heap, n, "Element")}
            pairs == {pr \in nodes \X {"onchange", "onclick"} : HasAttr(heap, pr[1], pr[2])}
        IN /\ Len(regs) = Cardinality(pairs)
           /\ \A pr \in pairs :
                 Cardinality({k \in DOMAIN regs :
                     regs[k].node = pr[1] /\ regs[k].event = pr[2]}) = 1
           /\ \A i, j \in DOMAIN regs :
                 /\ (regs[j].node # regs[i].node
                       /\ regs[j].node \in Subtree(heap, {regs[i].node})) => i < j
                 /\ (regs[j].node = regs[i].node /\ regs[i].event = "onchange"
                       /\ regs[j].event = "onclick") => i < j
           /\ \A k \in DOMAIN regs :
                 /\ regs[k].id = IdOf(heap, regs[k].node)
                 /\ regs[k].handler = GetHandler(heap, regs[k].node, regs[k].event)
           /\ \A n \in nodes :
                 LET clauses == SelectSeq(out, LAMBDA x :
                                    x.node = n /\ x.t \in {"attribute", "dispatch"})
                     mine == SelectSeq(regs, LAMBDA x : x.node = n)
                     A == heap[n].attributes
                 IN /\ Len(clauses) = Len(A) + Len(mine)
                    /\ \A i \in DOMAIN A :
                          /\ clauses[i].t = "attribute"
                          /\ clauses[i].k = A[i][1]
                    /\ \A i \in DOMAIN mine :
                          /\ clauses[Len(A) + i].t = "dispatch"
                          /\ clauses[Len(A) + i].k = mine[i].event

C9_Witness ==
    /\ Rendered
    /\ Len(last.result.regs) = 3
    /\ last.result.regs[1].node = last.root
    /\ last.result.regs[1].id = IntZero
    /\ last.result.regs[1].event = "onchange"
    /\ last.result.regs[2].node = last.root
    /\ last.result.regs[2].event = "onclick"
    /\ last.result.regs[3].node # last.root
    /\ last.result.regs[3].id # IntZero

(* C10. Path-tail descent: for a non-empty valid index path p, the component
   whose receive_event runs at depth k is the one p[0..k-1] leads to from the
   root, it sees the target p[k..], and the descent ends at depth len(p) with
   an empty target. *)
C10_PathTailDescent ==
    (Routed /\ last.target # <<>> /\ Follow(heap, last.root, last.target) # 0
        /\ HasAttr(heap, Follow(heap, last.root, last.target), "receive_event"))
    => LET p == last.target
           calls == last.result.calls
       IN /\ Len(calls) = Len(p) + 1
          /\ \A k \in 0..Len(p) :
                /\ calls[k + 1][1] = Follow(heap, last.root, SubSeq(p, 1, k))
                /\ calls[k + 1][2] = SubSeq(p, k + 1, Len(p))

====
